---- MODULE Spec2Model ----
(***************************************************************************)
(* Model of the light-whisper speech-to-text sidecar: the model lifecycle  *)
(* (initialize / _load_model with device fallback), the transcription      *)
(* pipeline and the stdin/stdout command loop of whisper_server.py and     *)
(* funasr_server.py, the model downloader download_models.py and the       *)
(* cache readiness checks of hf_cache_utils.py.                            *)
(*                                                                         *)
(* Six specifications share the variables and the method operators:        *)
(*   Spec     the server process: run() from startup to exit;              *)
(*   SpecApi  the server object driven by direct method calls, as a unit   *)
(*            test with a stub model loader drives it;                     *)
(*   SpecSeq  the server object given a longer run of transcriptions, for  *)
(*            the statistics and the periodic cleanup;                     *)
(*   SpecDl   the downloader process: main() on the main thread and the    *)
(*            worker thread of download_model, interleaved;                *)
(*   SpecMain the same with the configurations main() has and the main     *)
(*            thread scheduled fairly, for termination;                    *)
(*   SpecCache  the cache directory of one repository as it is written     *)
(*            and as the readiness checks read it.                         *)
(*                                                                         *)
(* Durations are in tenths of a second (0.5 s = 5, 120 s = 1200); the      *)
(* average the statistics report is in hundredths.                         *)
(***************************************************************************)
EXTENDS Integers, Sequences, FiniteSets

\* ------------------------------------------------------------------ bounds
\* Lines the host writes to stdin before end-of-input (Spec).
MaxLines == 2
\* Direct method calls made on the server object (SpecApi).
MaxCalls == 3
\* Calls made in a run of transcriptions (SpecSeq).
MaxTranscriptions == 6
\* Progress callbacks tqdm makes in one worker thread (SpecDl).
MaxCallbacks == 2
\* download_model: max_ticks = 900 and the 15 ticks of the connecting message,
\* scaled down so that the polling loop can be run to its ceiling.
max_ticks == 2
connect_ticks == 1

\* --------------------------------------------------------- program constants
CLEANUP_EVERY_N == 5
FUNASR_CLEANUP_EVERY == 10
SHORT_AUDIO_LIMIT == 5
LONG_AUDIO_LIMIT == 1200
_MIN_WEIGHT_SIZE == 1000000
\* self.model = None
NoModel == 0

Variants == {"whisper", "funasr"}
Devices == {"cuda", "cpu"}

VARIABLES
    variant,                \* which server file runs
    initialized,            \* self.initialized
    model,                  \* self.model / self.asr_model (NoModel or the id of the load that made it)
    device,                 \* self.device
    running,                \* self.running
    transcription_count,    \* self.transcription_count
    total_audio_duration,   \* self.total_audio_duration
    loadAttempts,           \* stub counter: executions of _load_model's body
    loadLog,                \* stub log: <<device, outcome>> of each load made for the latest line or call
    inferCalls,             \* stub counter: calls of model.transcribe / asr_model.generate
    inferLog,               \* stub log: what the inference call made for the latest line or call did
    cleanups,               \* stub counter: calls of _cleanup_memory
    pc,                     \* position of run(): start, check, read, dispatch, stopped; api under SpecApi
    line,                   \* the line last read from stdin (or the method last called)
    afterMalformed,         \* whether the line read before it was malformed JSON
    anyMissing,             \* whether the startup check found a repository not ready (missing != [])
    startup,                \* the startup result line
    last,                   \* the line last written to stdout (or the result last returned)
    nread,                  \* non-empty lines read
    nout,                   \* lines written to stdout
    sigAt,                  \* where run() was when the first signal arrived
    calls,                  \* method calls made (SpecApi)
    \* download_models.py: module and class state
    _progress,              \* _progress: model type -> percentage
    _completed_count,       \* _completed_count
    _total_count,           \* _total_count
    _last_pct,              \* _ProgressTqdm._last_pct
    _model_type,            \* _ProgressTqdm._model_type
    \* download_models.py: the main thread
    dpc,                    \* position of main() / download_model()
    idx,                    \* index in models of the model in hand
    model_config,           \* the configuration download_model was given
    tick,                   \* tick
    current_pct,            \* current_pct, read by the heartbeat
    results,                \* results
    mstatus,                \* the status _emit built on the main thread, not yet printed
    \* download_models.py: the worker thread and what it shares with the main thread
    done_event,             \* done_event
    result_box,             \* result_box
    wpc,                    \* position of _worker: none, transfer, print, exit
    source,                 \* the repository and pin of the snapshot_download in progress
    callbacks,              \* progress callbacks tqdm has made in this worker
    wstatus,                \* the status _emit built on the worker thread, not yet printed
    \* download_models.py: stdout and logs
    out_last,               \* the line last printed
    out_summaries,          \* final summaries printed
    out_after,              \* lines printed after a final summary
    emitted,                \* log: model type -> stage -> calls of _emit
    started,                \* log: model type -> worker threads started
    cached,                 \* log: model type -> what _is_repo_cached answered
    attempts,               \* log: the snapshot_download calls of this worker and how each ended
    doneTick,               \* log: the value of tick when done_event was set
    cb_last,                \* log: the percentage the callback emitted last in this transfer
    \* the HuggingFace cache directory of one repository
    repo,                   \* what the directory holds
    verdicts                \* what each readiness check last answered about it

self_vars == <<initialized, model, device, transcription_count, total_audio_duration,
               loadAttempts, loadLog, inferCalls, inferLog, cleanups>>
dl_vars == <<_progress, _completed_count, _total_count, _last_pct, _model_type,
             dpc, idx, model_config, tick, current_pct, results, mstatus,
             done_event, result_box, wpc, source, callbacks, wstatus,
             out_last, out_summaries, out_after, emitted, started, cached, attempts,
             doneTick, cb_last>>
cache_vars == <<repo, verdicts>>
server_vars == <<variant, initialized, model, device, running, transcription_count,
                 total_audio_duration, loadAttempts, loadLog, inferCalls, inferLog,
                 cleanups, pc, line, afterMalformed, anyMissing, startup, last, nread,
                 nout, sigAt, calls>>
vars == <<server_vars, dl_vars, cache_vars>>

\* The server object as a record, for the method operators below.
Self ==
    [variant |-> variant, initialized |-> initialized, model |-> model, device |-> device,
     transcription_count |-> transcription_count,
     total_audio_duration |-> total_audio_duration,
     loadAttempts |-> loadAttempts, loadLog |-> loadLog,
     inferCalls |-> inferCalls, inferLog |-> inferLog, cleanups |-> cleanups]

Store(s) ==
    /\ initialized' = s.initialized
    /\ model' = s.model
    /\ device' = s.device
    /\ transcription_count' = s.transcription_count
    /\ total_audio_duration' = s.total_audio_duration
    /\ loadAttempts' = s.loadAttempts
    /\ loadLog' = s.loadLog
    /\ inferCalls' = s.inferCalls
    /\ inferLog' = s.inferLog
    /\ cleanups' = s.cleanups

NoResult == [none |-> TRUE]
TypeOf(r) == IF "type" \in DOMAIN r THEN r.type ELSE "none"
IsResult(r) == "success" \in DOMAIN r

\* ------------------------------------------------------------ model loading
\* What one construction of the model can do: succeed, raise a load error, or
\* fail at the import of the model library.
LoadOutcomes == {"ok", "error", "import_error"}
\* The environment of one _load_model execution: the outcome of the pinned
\* construction and (funasr only) of the construction without the revision pin.
LoadEnv(p, u) == [pinned |-> p, unpinned |-> u]
LoadEnvs(v) ==
    IF v = "whisper"
    THEN {LoadEnv(p, "error") : p \in LoadOutcomes}
    ELSE {LoadEnv(p, u) : p \in LoadOutcomes, u \in {"ok", "error"}}
\* The loader's behaviour over one initialize(): one environment per execution of
\* _load_model, of which there are at most two, and two only from cuda.
LoadScripts(s) ==
    IF s.initialized THEN {<<>>}
    ELSE IF s.device = "cuda"
    THEN {<<a, b>> : a \in LoadEnvs(s.variant), b \in LoadEnvs(s.variant)}
    ELSE {<<a>> : a \in LoadEnvs(s.variant)}

\* Whether the try block of _load_model / _load_asr_model completes.
TryLoad(s, e) ==
    IF s.variant = "whisper"
    THEN e.pinned = "ok"
    ELSE \/ e.pinned = "ok"
         \/ e.pinned = "error" /\ e.unpinned = "ok"

Logged(s, e) == <<s.device, IF TryLoad(s, e) THEN "ok" ELSE e.pinned>>

\* Mutant: the cuda failure downgrades the device but the load is not retried.
_load_model_NoRetry(s, envs) ==
    LET e == Head(envs)
        t == [s EXCEPT !.loadAttempts = @ + 1, !.loadLog = Append(@, Logged(s, e))]
    IN  IF TryLoad(s, e)
        THEN [self |-> [t EXCEPT !.model = t.loadAttempts], ok |-> TRUE]
        ELSE [self |-> [t EXCEPT !.device = "cpu"], ok |-> FALSE]

\* _load_model: envs is the sequence of environments of the successive executions.
RECURSIVE _load_model(_, _)
_load_model(s, envs) ==
    LET e == Head(envs)
        t == [s EXCEPT !.loadAttempts = @ + 1, !.loadLog = Append(@, Logged(s, e))]
    IN  IF TryLoad(s, e)
        THEN [self |-> [t EXCEPT !.model = t.loadAttempts], ok |-> TRUE]
        ELSE IF s.device = "cuda"
             THEN _load_model([t EXCEPT !.device = "cpu"], Tail(envs))
             ELSE [self |-> t, ok |-> FALSE]

\* Mutant: no early return when already initialized.
initialize_NoGuard(s, envs) ==
    LET r == _load_model(s, IF envs = <<>> THEN <<LoadEnv("ok", "ok")>> ELSE envs)
    IN  IF ~r.ok
        THEN [self |-> r.self,
              result |-> [success |-> FALSE, error |-> "load_failed", type |-> "init_error"]]
        ELSE [self |-> [r.self EXCEPT !.initialized = TRUE],
              result |-> [success |-> TRUE, message |-> "initialized",
                          model_loaded |-> TRUE, engine |-> s.variant]]

\* Mutant: the result of _load_model is ignored.
initialize_ReadyOnFailure(s, envs) ==
    IF s.initialized
    THEN [self |-> s, result |-> [success |-> TRUE, message |-> "already_initialized"]]
    ELSE LET r == _load_model(s, envs)
         IN  [self |-> [r.self EXCEPT !.initialized = TRUE],
              result |-> [success |-> TRUE, message |-> "initialized",
                          model_loaded |-> TRUE, engine |-> s.variant]]

initialize(s, envs) ==
    IF s.initialized
    THEN [self |-> s, result |-> [success |-> TRUE, message |-> "already_initialized"]]
    ELSE LET r == _load_model(s, envs)
         IN  IF ~r.ok
             THEN [self |-> r.self,
                   result |-> [success |-> FALSE, error |-> "load_failed", type |-> "init_error"]]
             ELSE [self |-> [r.self EXCEPT !.initialized = TRUE],
                   result |-> [success |-> TRUE, message |-> "initialized",
                               model_loaded |-> TRUE, engine |-> s.variant]]

\* --------------------------------------------------------- cache readiness
\* What the cache holds for one repository: whether models--<org>--<name> exists,
\* whether refs/ holds a file, whether snapshots/ holds a subdirectory, and the
\* extension and size in bytes of the file inside that snapshot ("" = no file).
_WEIGHT_EXTS == {".pt", ".bin", ".safetensors", ".onnx"}
CacheEntry(d, r, sn, x, sz) ==
    [repo_dir |-> d, refs_file |-> r, snapshot_dir |-> sn, ext |-> x, size |-> sz]
CacheContents ==
    { CacheEntry(FALSE, FALSE, FALSE, "", 0),
      CacheEntry(TRUE, TRUE, FALSE, "", 0),
      CacheEntry(TRUE, FALSE, TRUE, "", 0),
      CacheEntry(TRUE, TRUE, TRUE, ".safetensors", 999999),
      CacheEntry(TRUE, TRUE, TRUE, ".json", 2097152),
      CacheEntry(TRUE, TRUE, TRUE, ".safetensors", 2097152) }

is_hf_repo_ready(c) ==
    /\ c.repo_dir
    /\ c.snapshot_dir
    /\ c.ext \in _WEIGHT_EXTS
    /\ c.size >= _MIN_WEIGHT_SIZE

\* funasr_server.py's own check: the directory with any refs file or any snapshot.
_hf_repo_ready(c) ==
    /\ c.repo_dir
    /\ c.refs_file \/ c.snapshot_dir

WHISPER_MODEL_REPOS == {"deepdml/faster-whisper-large-v3-turbo-ct2"}
FUNASR_MODEL_REPOS == {"funasr/paraformer-zh", "funasr/fsmn-vad", "funasr/ct-punc"}
Repos(v) == IF v = "whisper" THEN WHISPER_MODEL_REPOS ELSE FUNASR_MODEL_REPOS
RepoReady(v, c) == IF v = "whisper" THEN is_hf_repo_ready(c) ELSE _hf_repo_ready(c)

\* ------------------------------------------------------------------- audio
\* An audio file: whether the path exists, whether it starts with RIFF, and the
\* header's byte rate (bytes per second) and data size (bytes).  Byte rates are
\* 0 or 10, so data_size / byte_rate is a whole number of tenths of a second.
Audio(x, r, b, d) == [exists |-> x, riff |-> r, byte_rate |-> b, data_size |-> d]
NoAudio == Audio(FALSE, FALSE, 0, 0)
DataSizes == {0, 3, 5, 1201}
Audios ==
    {NoAudio, Audio(TRUE, FALSE, 10, 5), Audio(TRUE, TRUE, 0, 5)}
        \cup {Audio(TRUE, TRUE, 10, d) : d \in DataSizes}

Decodable(a) == a.riff /\ a.byte_rate > 0
HeaderDuration(a) == (a.data_size * 10) \div a.byte_rate

\* _get_audio_duration: the duration, added to the running total when the probe
\* succeeds; 0 and no addition when it raises.
_get_audio_duration(s, a) ==
    IF Decodable(a)
    THEN [self |-> [s EXCEPT !.total_audio_duration = @ + HeaderDuration(a)],
          duration |-> HeaderDuration(a)]
    ELSE [self |-> s, duration |-> 0]

\* Mutant: the reclamation pass drops the model.
_cleanup_memory_DropsModel(s) == [s EXCEPT !.cleanups = @ + 1, !.model = NoModel]

_cleanup_memory(s) == [s EXCEPT !.cleanups = @ + 1]

\* BaseASRServer._maybe_cleanup(duration)
_maybe_cleanup(s, d) ==
    IF s.transcription_count % CLEANUP_EVERY_N = 0 \/ d > LONG_AUDIO_LIMIT
    THEN _cleanup_memory(s)
    ELSE s

\* What the inference call can do: return text, return nothing recognised, return
\* an empty list or a bare value (funasr), or raise: the error of an empty or
\* out-of-bounds tensor (index_error) or any other (runtime_error).
InferOutcomes(v) ==
    IF v = "whisper"
    THEN {"text", "silence", "index_error", "runtime_error"}
    ELSE {"text", "silence", "empty_list", "bare", "index_error", "runtime_error"}
Raises(o) == o \in {"index_error", "runtime_error"}
TextOf(o) == CASE o = "text" -> "hello" [] o = "silence" -> "" [] o = "empty_list" -> "[]"
                  [] OTHER -> "bare"

transcription_error(e) == [success |-> FALSE, error |-> e, type |-> "transcription_error"]

\* Mutant: the cleanup test looks at the count only, as the funasr server's does.
whisper_transcribe_CountOnly(s, a, o) ==
    IF ~a.exists
    THEN [self |-> s, result |-> transcription_error("file_not_found")]
    ELSE LET p == _get_audio_duration(s, a)
             d == p.duration
             called == [p.self EXCEPT !.inferCalls = @ + 1, !.inferLog = o]
             counted == [called EXCEPT !.transcription_count = @ + 1]
         IN  IF 0 < d /\ d < SHORT_AUDIO_LIMIT
             THEN [self |-> p.self, result |-> [success |-> TRUE, text |-> "", duration |-> d]]
             ELSE IF Raises(o)
             THEN [self |-> called, result |-> transcription_error(o)]
             ELSE [self |-> IF counted.transcription_count % CLEANUP_EVERY_N = 0
                            THEN _cleanup_memory(counted) ELSE counted,
                   result |-> [success |-> TRUE, text |-> TextOf(o), raw_text |-> TextOf(o),
                               confidence |-> IF o = "text" THEN 1 ELSE 0, duration |-> d,
                               language |-> "detected", model_type |-> "ctranslate2"]]

\* WhisperServer.transcribe_audio from its try block on.
whisper_transcribe(s, a, o) ==
    IF ~a.exists
    THEN [self |-> s, result |-> transcription_error("file_not_found")]
    ELSE LET p == _get_audio_duration(s, a)
             d == p.duration
             called == [p.self EXCEPT !.inferCalls = @ + 1, !.inferLog = o]
             counted == [called EXCEPT !.transcription_count = @ + 1]
         IN  IF 0 < d /\ d < SHORT_AUDIO_LIMIT
             THEN [self |-> p.self, result |-> [success |-> TRUE, text |-> "", duration |-> d]]
             ELSE IF Raises(o)
             THEN [self |-> called, result |-> transcription_error(o)]
             ELSE [self |-> IF counted.transcription_count % CLEANUP_EVERY_N = 0
                                \/ d > LONG_AUDIO_LIMIT
                            THEN _cleanup_memory(counted) ELSE counted,
                   result |-> [success |-> TRUE, text |-> TextOf(o), raw_text |-> TextOf(o),
                               confidence |-> IF o = "text" THEN 1 ELSE 0, duration |-> d,
                               language |-> "detected", model_type |-> "ctranslate2"]]

\* FunASRServer.transcribe_audio from its try block on.
funasr_transcribe(s, a, o) ==
    IF ~a.exists
    THEN [self |-> s, result |-> [success |-> FALSE, error |-> "file_not_found"]]
    ELSE LET p == _get_audio_duration(s, a)
             d == p.duration
             called == [p.self EXCEPT !.inferCalls = @ + 1, !.inferLog = o]
             counted == [called EXCEPT !.transcription_count = @ + 1]
         IN  IF Raises(o)
             THEN [self |-> called, result |-> transcription_error(o)]
             ELSE IF o = "empty_list"
             THEN [self |-> counted, result |-> transcription_error("index_error")]
             ELSE [self |-> IF counted.transcription_count % FUNASR_CLEANUP_EVERY = 0
                            THEN _cleanup_memory(counted) ELSE counted,
                   result |-> [success |-> TRUE, text |-> TextOf(o), raw_text |-> TextOf(o),
                               confidence |-> 0, duration |-> d,
                               language |-> "zh-CN", model_type |-> "pytorch"]]

\* Mutant: a server that is not Ready refuses the request without trying to load.
transcribe_audio_NoLazyInit(s, a, envs, o) ==
    IF ~s.initialized
    THEN [self |-> s,
          result |-> [success |-> FALSE, error |-> "not_initialized", type |-> "init_error"]]
    ELSE IF s.variant = "whisper"
         THEN whisper_transcribe(s, a, o)
         ELSE funasr_transcribe(s, a, o)

\* Mutant: the result of the lazy initialize() is not looked at.
transcribe_audio_IgnoreInitFailure(s, a, envs, o) ==
    LET i == IF s.initialized THEN [self |-> s, result |-> NoResult] ELSE initialize(s, envs)
    IN  IF s.variant = "whisper"
        THEN whisper_transcribe(i.self, a, o)
        ELSE funasr_transcribe(i.self, a, o)

transcribe_audio(s, a, envs, o) ==
    LET i == IF s.initialized THEN [self |-> s, result |-> NoResult] ELSE initialize(s, envs)
    IN  IF ~s.initialized /\ ~i.result.success
        THEN i
        ELSE IF s.variant = "whisper"
             THEN whisper_transcribe(i.self, a, o)
             ELSE funasr_transcribe(i.self, a, o)

\* check_status: the import of the model library succeeds, raises ImportError
\* ("missing") or raises something else ("broken"), which check_status lets through.
StatusEnvs == {"installed", "missing", "broken"}
check_status(s, e) ==
    CASE e = "installed" ->
            [raised |-> FALSE,
             result |-> [success |-> TRUE, installed |-> TRUE, initialized |-> s.initialized,
                         engine |-> s.variant, model_loaded |-> s.model # NoModel,
                         device |-> s.device]]
      [] e = "missing" ->
            [raised |-> FALSE,
             result |-> [success |-> FALSE, installed |-> FALSE, initialized |-> FALSE,
                         error |-> "not_installed"]]
      [] OTHER -> [raised |-> TRUE, result |-> NoResult]

Max(a, b) == IF a >= b THEN a ELSE b
\* round(num / den, 2) in hundredths, num being in hundredths too: the nearest whole
\* number of hundredths.  At an exact half the result depends on the binary
\* representation of the quotient (round(0.025, 2) is 0.03, round(0.045, 2) is 0.04),
\* so either neighbour can come out: up says which.
Round2(num, den, up) ==
    LET q == num \div den
        r == num % den
    IN  IF 2 * r > den \/ (2 * r = den /\ up) THEN q + 1 ELSE q

\* Mutant: the division by zero is avoided by adding one to the count.
get_performance_stats_PlusOne(s, up) ==
    [transcription_count |-> s.transcription_count,
     total_audio_duration |-> s.total_audio_duration,
     average_duration |-> Round2(10 * s.total_audio_duration, s.transcription_count + 1, up),
     initialized |-> s.initialized, engine |-> s.variant, asr_loaded |-> s.model # NoModel]

\* get_performance_stats: the total in tenths of a second (round(total, 2) changes
\* no value that is a whole number of tenths), the average in hundredths.
get_performance_stats(s, up) ==
    [transcription_count |-> s.transcription_count,
     total_audio_duration |-> s.total_audio_duration,
     average_duration |-> Round2(10 * s.total_audio_duration, Max(1, s.transcription_count), up),
     initialized |-> s.initialized, engine |-> s.variant, asr_loaded |-> s.model # NoModel]

\* ------------------------------------------------------------- input lines
Line(k, a, au) == [kind |-> k, action |-> a, audio |-> au]
NoLine == Line("none", "", NoAudio)
EofLine == Line("eof", "", NoAudio)
\* The lines a host can send: whitespace only, not JSON, JSON that is no object,
\* and objects with each recognized action and an unrecognized one.
Lines ==
    {Line("empty", "", NoAudio), Line("malformed", "", NoAudio), Line("nonobject", "", NoAudio)}
        \cup {Line("object", a, NoAudio) : a \in {"status", "stats", "cleanup", "exit", "bogus"}}
        \cup {Line("object", "transcribe", au) : au \in Audios}
Tag(l) == IF l.kind \in {"object", "call"} THEN l.action ELSE l.kind

MODELS_NOT_DOWNLOADED(v) ==
    [success |-> FALSE, error |-> "models_not_downloaded", type |-> "models_not_downloaded",
     engine |-> v]

\* ------------------------------------------------- download_models.py: state
\* main(): models
models ==
    << [name |-> "FunAudioLLM/SenseVoiceSmall", type |-> "asr"],
       [name |-> "funasr/fsmn-vad", type |-> "vad"] >>
ModelTypes == {models[i].type : i \in 1..Len(models)}
Stages == {"downloading", "completed", "error"}
\* No status waiting to be printed; result_box = {}; no snapshot_download in progress.
NoStatus == [stage |-> "none"]
EmptyBox == [empty |-> TRUE]
NoSource == [repo |-> "none", pinned |-> FALSE]
NoConfig == [revision |-> FALSE, fallback_name |-> FALSE]
NoLog == [t \in ModelTypes |-> [s \in Stages |-> 0]]

\* The module as imported, before main() runs.
DownloaderNotRun ==
    /\ _progress = [t \in {} |-> 0]
    /\ _completed_count = 0
    /\ _total_count = 0
    /\ _last_pct = -1
    /\ _model_type = "asr"
    /\ dpc = "main"
    /\ idx = 0
    /\ model_config = NoConfig
    /\ tick = 0
    /\ current_pct = 0
    /\ results = [t \in {} |-> 0]
    /\ mstatus = NoStatus
    /\ done_event = FALSE
    /\ result_box = EmptyBox
    /\ wpc = "none"
    /\ source = NoSource
    /\ callbacks = 0
    /\ wstatus = NoStatus
    /\ out_last = NoStatus
    /\ out_summaries = 0
    /\ out_after = 0
    /\ emitted = NoLog
    /\ started = [t \in ModelTypes |-> 0]
    /\ cached = [t \in {} |-> FALSE]
    /\ attempts = <<>>
    /\ doneTick = -1
    /\ cb_last = -1

\* The cache directory of a repository nothing has been downloaded to, no check made.
NoRepo == [repo_dir |-> FALSE, refs_file |-> FALSE, snapshot_dir |-> FALSE,
           ext |-> "", size |-> 0, depth |-> 0]
NoVerdicts == [asked |-> FALSE]
CacheNotRead ==
    /\ repo = NoRepo
    /\ verdicts = NoVerdicts

\* ------------------------------------------------------------------- run()
Init ==
    /\ variant \in Variants
    /\ device \in Devices
    /\ initialized = FALSE
    /\ model = NoModel
    /\ running = TRUE
    /\ transcription_count = 0
    /\ total_audio_duration = 0
    /\ loadAttempts = 0
    /\ loadLog = <<>>
    /\ inferCalls = 0
    /\ inferLog = "none"
    /\ cleanups = 0
    /\ pc = "start"
    /\ line = NoLine
    /\ afterMalformed = FALSE
    /\ anyMissing = FALSE
    /\ startup = NoResult
    /\ last = NoResult
    /\ nread = 0
    /\ nout = 0
    /\ sigAt = "none"
    /\ calls = 0
    /\ DownloaderNotRun
    /\ CacheNotRead

\* print(json.dumps(result)); sys.stdout.flush()
WriteLine(r) ==
    /\ last' = r
    /\ nout' = nout + 1

\* Mutant: the eager initialize is not skipped when a repository is missing.
init_result_AlwaysInit(s, miss, envs) == initialize(s, envs)

\* run() before its first print: initialize() when no repository is missing,
\* the models_not_downloaded result otherwise.
init_result(s, miss, envs) ==
    IF miss = {}
    THEN initialize(s, envs)
    ELSE [self |-> s, result |-> MODELS_NOT_DOWNLOADED(s.variant)]

\* run() up to the while loop: the cache check, the eager initialize, the first line.
Startup ==
    /\ pc = "start"
    /\ \E cache \in [Repos(variant) -> CacheContents], envs \in LoadScripts(Self) :
         LET miss == {r \in Repos(variant) : ~RepoReady(variant, cache[r])}
             i == init_result([Self EXCEPT !.loadLog = <<>>, !.inferLog = "none"], miss, envs)
         IN  /\ anyMissing' = (miss # {})
             /\ Store(i.self)
             /\ startup' = i.result
             /\ WriteLine(i.result)
    /\ pc' = "check"
    /\ UNCHANGED <<variant, dl_vars, cache_vars, running, line, afterMalformed, nread,
                   sigAt, calls>>

\* Mutant: the loop does not test the flag.
Check_IgnoresFlag ==
    /\ pc = "check"
    /\ pc' = "read"
    /\ UNCHANGED <<variant, dl_vars, cache_vars, self_vars, running, line, afterMalformed,
                   anyMissing,
                   startup, last, nread, nout, sigAt, calls>>

\* while self.running
Check ==
    /\ pc = "check"
    /\ pc' = IF running THEN "read" ELSE "stopped"
    /\ UNCHANGED <<variant, dl_vars, cache_vars, self_vars, running, line, afterMalformed,
                   anyMissing,
                   startup, last, nread, nout, sigAt, calls>>

\* line = sys.stdin.readline(), returning a line
ReadLine ==
    /\ pc = "read"
    /\ \E l \in Lines :
         /\ l.kind # "empty" => nread < MaxLines
         /\ line' = l
         /\ nread' = IF l.kind = "empty" THEN nread ELSE nread + 1
    /\ afterMalformed' = (line.kind = "malformed")
    /\ pc' = "dispatch"
    /\ UNCHANGED <<variant, dl_vars, cache_vars, self_vars, running, anyMissing, startup,
                   last, nout, sigAt,
                   calls>>

\* Mutant: end of input is not told from an empty line, and the loop goes on.
ReadEof_Continue ==
    /\ pc = "read"
    /\ line' = EofLine
    /\ afterMalformed' = (line.kind = "malformed")
    /\ pc' = "check"
    /\ UNCHANGED <<variant, dl_vars, cache_vars, self_vars, running, anyMissing, startup,
                   last,
                   nread, nout, sigAt, calls>>

\* line = sys.stdin.readline(), returning "" at end of input: break
ReadEof ==
    /\ pc = "read"
    /\ line' = EofLine
    /\ afterMalformed' = (line.kind = "malformed")
    /\ pc' = "stopped"
    /\ UNCHANGED <<variant, dl_vars, cache_vars, self_vars, running, anyMissing, startup,
                   last,
                   nread, nout, sigAt, calls>>

loop_frame == <<variant, dl_vars, cache_vars, running, line, afterMalformed, anyMissing,
               startup, nread, sigAt,
               calls>>
\* A command that reaches none of the server's methods: only the stub's logs restart.
Untouched ==
    /\ loadLog' = <<>>
    /\ inferLog' = "none"
    /\ UNCHANGED <<initialized, model, device, transcription_count, total_audio_duration,
                   loadAttempts, inferCalls, cleanups>>

\* if not line: continue
DispatchEmpty ==
    /\ pc = "dispatch"
    /\ line.kind = "empty"
    /\ pc' = "check"
    /\ Untouched
    /\ UNCHANGED <<last, nout>>
    /\ UNCHANGED loop_frame

\* Mutant: no continue after the invalid-JSON response; the unbound command then
\* raises and the loop-level handler prints a second line.
DispatchMalformed_NoContinue ==
    /\ pc = "dispatch"
    /\ line.kind = "malformed"
    /\ last' = [success |-> FALSE, error |-> "NameError", traceback |-> "traceback"]
    /\ nout' = nout + 2
    /\ pc' = "check"
    /\ Untouched
    /\ UNCHANGED loop_frame

\* Mutant: break instead of continue after the invalid-JSON response.
DispatchMalformed_Break ==
    /\ pc = "dispatch"
    /\ line.kind = "malformed"
    /\ WriteLine([success |-> FALSE, error |-> "invalid_json"])
    /\ pc' = "stopped"
    /\ Untouched
    /\ UNCHANGED loop_frame

\* except json.JSONDecodeError
DispatchMalformed ==
    /\ pc = "dispatch"
    /\ line.kind = "malformed"
    /\ WriteLine([success |-> FALSE, error |-> "invalid_json"])
    /\ pc' = "check"
    /\ Untouched
    /\ UNCHANGED loop_frame

\* Mutant: no loop-level except Exception; the AttributeError ends run().
DispatchNonObject_Crash ==
    /\ pc = "dispatch"
    /\ line.kind = "nonobject"
    /\ pc' = "stopped"
    /\ Untouched
    /\ UNCHANGED <<last, nout>>
    /\ UNCHANGED loop_frame

\* command.get raises on a JSON value that is no object: except Exception
DispatchNonObject ==
    /\ pc = "dispatch"
    /\ line.kind = "nonobject"
    /\ WriteLine([success |-> FALSE, error |-> "AttributeError", traceback |-> "traceback"])
    /\ pc' = "check"
    /\ Untouched
    /\ UNCHANGED loop_frame

DispatchTranscribe ==
    /\ pc = "dispatch"
    /\ line.kind = "object" /\ line.action = "transcribe"
    /\ \E envs \in LoadScripts(Self), o \in InferOutcomes(variant) :
         LET t == transcribe_audio([Self EXCEPT !.loadLog = <<>>, !.inferLog = "none"],
                                   line.audio, envs, o)
         IN  /\ Store(t.self)
             /\ WriteLine(t.result)
    /\ pc' = "check"
    /\ UNCHANGED loop_frame

DispatchStatus ==
    /\ pc = "dispatch"
    /\ line.kind = "object" /\ line.action = "status"
    /\ \E e \in StatusEnvs :
         LET c == check_status(Self, e)
         IN  WriteLine(IF c.raised
                   THEN [success |-> FALSE, error |-> "import_failed", traceback |-> "traceback"]
                   ELSE c.result)
    /\ pc' = "check"
    /\ Untouched
    /\ UNCHANGED loop_frame

DispatchStats ==
    /\ pc = "dispatch"
    /\ line.kind = "object" /\ line.action = "stats"
    /\ \E up \in BOOLEAN :
         WriteLine([success |-> TRUE, stats |-> get_performance_stats(Self, up)])
    /\ pc' = "check"
    /\ Untouched
    /\ UNCHANGED loop_frame

DispatchCleanup ==
    /\ pc = "dispatch"
    /\ line.kind = "object" /\ line.action = "cleanup"
    /\ Store(_cleanup_memory([Self EXCEPT !.loadLog = <<>>, !.inferLog = "none"]))
    /\ WriteLine([success |-> TRUE, message |-> "cleaned"])
    /\ pc' = "check"
    /\ UNCHANGED loop_frame

\* Mutant: the exit branch prints its response and does not break.
DispatchExit_NoBreak ==
    /\ pc = "dispatch"
    /\ line.kind = "object" /\ line.action = "exit"
    /\ WriteLine([success |-> TRUE, message |-> "exiting"])
    /\ pc' = "check"
    /\ Untouched
    /\ UNCHANGED loop_frame

\* the exit branch prints its own response and breaks
DispatchExit ==
    /\ pc = "dispatch"
    /\ line.kind = "object" /\ line.action = "exit"
    /\ WriteLine([success |-> TRUE, message |-> "exiting"])
    /\ pc' = "stopped"
    /\ Untouched
    /\ UNCHANGED loop_frame

DispatchUnknown ==
    /\ pc = "dispatch"
    /\ line.kind = "object"
    /\ line.action \notin {"transcribe", "status", "stats", "cleanup", "exit"}
    /\ WriteLine([success |-> FALSE, error |-> "unknown_action"])
    /\ pc' = "check"
    /\ Untouched
    /\ UNCHANGED loop_frame

\* Mutant: the handler ends the process itself instead of only clearing the flag.
Signal_Abort ==
    /\ pc \in {"start", "check", "read", "dispatch"}
    /\ running
    /\ running' = FALSE
    /\ sigAt' = pc
    /\ pc' = "stopped"
    /\ UNCHANGED <<variant, dl_vars, cache_vars, self_vars, line, afterMalformed, anyMissing,
                   startup, last,
                   nread, nout, calls>>

\* _signal_handler, run between any two steps of the main thread while the process
\* lives.  A second signal writes the same value, so only the first is a step.
Signal ==
    /\ pc \in {"start", "check", "read", "dispatch"}
    /\ running
    /\ running' = FALSE
    /\ sigAt' = pc
    /\ UNCHANGED <<variant, dl_vars, cache_vars, self_vars, pc, line, afterMalformed, anyMissing, startup,
                   last, nread, nout, calls>>

Next ==
    \/ Startup
    \/ Check
    \/ ReadLine
    \/ ReadEof
    \/ DispatchEmpty
    \/ DispatchMalformed
    \/ DispatchNonObject
    \/ DispatchTranscribe
    \/ DispatchStatus
    \/ DispatchStats
    \/ DispatchCleanup
    \/ DispatchExit
    \/ DispatchUnknown
    \/ Signal

Spec == Init /\ [][Next]_vars

\* ------------------------------------------------- direct method calls (SpecApi)
\* The server object after construction, its methods called directly in any order
\* with a stub loader and a stub inference call.
InitApi ==
    /\ variant \in Variants
    /\ device \in Devices
    /\ initialized = FALSE
    /\ model = NoModel
    /\ running = TRUE
    /\ transcription_count = 0
    /\ total_audio_duration = 0
    /\ loadAttempts = 0
    /\ loadLog = <<>>
    /\ inferCalls = 0
    /\ inferLog = "none"
    /\ cleanups = 0
    /\ pc = "api"
    /\ line = NoLine
    /\ afterMalformed = FALSE
    /\ anyMissing = FALSE
    /\ startup = NoResult
    /\ last = NoResult
    /\ nread = 0
    /\ nout = 0
    /\ sigAt = "none"
    /\ calls = 0
    /\ DownloaderNotRun
    /\ CacheNotRead

api_frame == <<variant, dl_vars, cache_vars, running, pc, afterMalformed, anyMissing, startup, nread, nout,
              sigAt>>

Called(name, au) ==
    /\ pc = "api"
    /\ calls < MaxCalls
    /\ calls' = calls + 1
    /\ line' = Line("call", name, au)
    /\ UNCHANGED api_frame

ApiInitialize ==
    /\ Called("initialize", NoAudio)
    /\ \E envs \in LoadScripts(Self) :
         LET i == initialize([Self EXCEPT !.loadLog = <<>>, !.inferLog = "none"], envs)
         IN  /\ Store(i.self)
             /\ last' = i.result

ApiTranscribe ==
    \E au \in Audios :
        /\ Called("transcribe", au)
        /\ \E envs \in LoadScripts(Self), o \in InferOutcomes(variant) :
             LET t == transcribe_audio([Self EXCEPT !.loadLog = <<>>, !.inferLog = "none"],
                                       au, envs, o)
             IN  /\ Store(t.self)
                 /\ last' = t.result

ApiStatus ==
    /\ Called("status", NoAudio)
    /\ \E e \in StatusEnvs :
         LET c == check_status(Self, e)
         IN  last' = IF c.raised THEN [raised |-> TRUE] ELSE c.result
    /\ Untouched

ApiStats ==
    /\ Called("stats", NoAudio)
    /\ \E up \in BOOLEAN : last' = get_performance_stats(Self, up)
    /\ Untouched

ApiCleanup ==
    /\ Called("cleanup", NoAudio)
    /\ Store(_cleanup_memory([Self EXCEPT !.loadLog = <<>>, !.inferLog = "none"]))
    /\ last' = NoResult

NextApi ==
    \/ ApiInitialize
    \/ ApiTranscribe
    \/ ApiStatus
    \/ ApiStats
    \/ ApiCleanup

SpecApi == InitApi /\ [][NextApi]_vars

\* --------------------------------------------- a run of transcriptions (SpecSeq)
\* The server object after construction, given one transcription after another, with
\* the statistics read in between and the base server's cleanup policy called as a
\* server built on BaseASRServer calls it.
\* The files of the run: WAV files of 0.3 s, 0.5 s and 120.1 s.
SeqAudios == {Audio(TRUE, TRUE, 10, 3), Audio(TRUE, TRUE, 10, 5), Audio(TRUE, TRUE, 10, 1201)}

CalledSeq(name, au) ==
    /\ pc = "api"
    /\ calls < MaxTranscriptions
    /\ calls' = calls + 1
    /\ line' = Line("call", name, au)
    /\ UNCHANGED api_frame

SeqTranscribe ==
    \E au \in SeqAudios :
        /\ CalledSeq("transcribe", au)
        /\ \E envs \in LoadScripts(Self), o \in InferOutcomes(variant) :
             LET t == transcribe_audio([Self EXCEPT !.loadLog = <<>>, !.inferLog = "none"],
                                       au, envs, o)
             IN  /\ Store(t.self)
                 /\ last' = t.result

SeqStats ==
    /\ CalledSeq("stats", NoAudio)
    /\ \E up \in BOOLEAN : last' = get_performance_stats(Self, up)
    /\ Untouched

SeqMaybeCleanup ==
    \E au \in SeqAudios :
        /\ CalledSeq("_maybe_cleanup", au)
        /\ Store(_maybe_cleanup([Self EXCEPT !.loadLog = <<>>, !.inferLog = "none"],
                                 _get_audio_duration(Self, au).duration))
        /\ last' = NoResult

NextSeq ==
    \/ SeqTranscribe
    \/ SeqStats
    \/ SeqMaybeCleanup

SpecSeq == InitApi /\ [][NextSeq]_vars

\* ------------------------------------------------------- download_models.py
\* Percentages a tqdm bar reports; snapshot_download opens one bar per file, so
\* they come in any order.
Pcts == {0, 40, 100}
\* What download_model reads from its configuration: whether revision and
\* fallback_name are set (fallback_revision defaults to revision).  The two
\* entries of main() set neither.
Configs == [revision : BOOLEAN, fallback_name : BOOLEAN]

min_size == 1 * 1024 * 1024
_is_repo_cached(c) ==
    /\ c.repo_dir
    /\ c.snapshot_dir
    /\ c.ext \in {".pt", ".bin", ".safetensors", ".onnx"}
    /\ c.size >= min_size

\* d[k] = v
Assign(d, k, v) == [x \in DOMAIN d \cup {k} |-> IF x = k THEN v ELSE d[x]]
\* sum(d.values())
RECURSIVE SumValues(_)
SumValues(d) ==
    IF DOMAIN d = {} THEN 0
    ELSE LET k == CHOOSE x \in DOMAIN d : TRUE
         IN  d[k] + SumValues([x \in DOMAIN d \ {k} |-> d[x]])

\* Mutant: every event is counted as a completion.
_emit_CountsAll(model_type, stage, percent, error, message) ==
    LET p == Assign(_progress, model_type, percent)
        n == _completed_count + 1
    IN  [progress |-> p, completed_count |-> n,
         status |-> [stage |-> stage, model |-> model_type, progress |-> percent,
                     overall_progress |->
                         IF _total_count # 0
                         THEN Round2(10 * SumValues(p), _total_count, FALSE) ELSE 0,
                     completed |-> n, total |-> _total_count, message |-> message]]

\* Mutant: the overall figure is computed from the map as it was before the update.
_emit_StaleOverall(model_type, stage, percent, error, message) ==
    LET p == Assign(_progress, model_type, percent)
        n == IF stage = "downloading" THEN _completed_count ELSE _completed_count + 1
    IN  [progress |-> p, completed_count |-> n,
         status |-> [stage |-> stage, model |-> model_type, progress |-> percent,
                     overall_progress |->
                         IF _total_count # 0
                         THEN Round2(10 * SumValues(_progress), _total_count, FALSE) ELSE 0,
                     completed |-> n, total |-> _total_count, message |-> message]]

\* _emit up to the release of the lock: the new map, the new count and the status
\* that will be printed.  overall_progress is in tenths of a percent; with the two
\* models of main() ten times the mean is a whole number, so round() has no tie.
\* error = "" is error=None.
_emit(model_type, stage, percent, error, message) ==
    LET p == IF stage = "downloading" THEN Assign(_progress, model_type, percent)
             ELSE IF stage = "completed" THEN Assign(_progress, model_type, 100)
             ELSE IF stage = "error" THEN Assign(_progress, model_type, 0)
             ELSE _progress
        n == IF stage \in {"completed", "error"}
             THEN _completed_count + 1 ELSE _completed_count
        overall == IF _total_count # 0 THEN Round2(10 * SumValues(p), _total_count, FALSE)
                   ELSE 0
    IN  [progress |-> p, completed_count |-> n,
         status |->
             IF error # ""
             THEN [stage |-> stage, model |-> model_type, progress |-> percent,
                   overall_progress |-> overall, completed |-> n, total |-> _total_count,
                   error |-> error, message |-> message]
             ELSE [stage |-> stage, model |-> model_type, progress |-> percent,
                   overall_progress |-> overall, completed |-> n, total |-> _total_count,
                   message |-> message]]

\* The locked section of _emit, as a step of the thread that called it.
Locked(e) ==
    /\ _progress' = e.progress
    /\ _completed_count' = e.completed_count
    /\ emitted' = [emitted EXCEPT ![e.status.model][e.status.stage] = @ + 1]

\* print(json.dumps(status)); sys.stdout.flush()
PrintLine(status) ==
    /\ out_last' = status
    /\ out_after' = IF out_summaries > 0 THEN out_after + 1 ELSE out_after
    /\ UNCHANGED out_summaries

dl_frame == <<server_vars, cache_vars>>
dl_module == <<_progress, _completed_count, emitted>>
dl_out == <<out_last, out_summaries, out_after>>
dl_worker == <<wpc, source, callbacks, wstatus, attempts, doneTick, cb_last>>
dl_thread == <<done_event, result_box, started, _last_pct, _model_type>>
ModelInHand == models[idx]

InitDl ==
    /\ InitApi
    /\ variant = "funasr"
    /\ device = "cpu"

\* main() up to its for loop.
DlMain ==
    /\ dpc = "main"
    /\ _total_count' = Len(models)
    /\ _progress' = [t \in DOMAIN _progress \cup ModelTypes |-> 0]
    /\ results' = [t \in {} |-> 0]
    /\ idx' = 1
    /\ dpc' = "call"
    /\ UNCHANGED <<_completed_count, emitted, model_config, tick, current_pct, mstatus,
                   cached, dl_out, dl_worker, dl_thread, dl_frame>>

\* Mutant: a repository found in the cache is transferred all the same.
DlCached_NoSkip ==
    /\ dpc = "call"
    /\ \E k \in Configs, c \in CacheContents :
         /\ _is_repo_cached(c)
         /\ model_config' = k
         /\ cached' = Assign(cached, ModelInHand.type, TRUE)
    /\ LET e == _emit(ModelInHand.type, "downloading", 0, "", "prepare")
       IN  /\ Locked(e)
           /\ mstatus' = e.status
    /\ dpc' = "print_prepare"
    /\ UNCHANGED <<_total_count, idx, tick, current_pct, results, dl_out, dl_worker,
                   dl_thread, dl_frame>>

\* download_model, the repository found in the cache: the locked section of
\* _emit(model_type, "completed", 100).
DlCached ==
    /\ dpc = "call"
    /\ \E k \in Configs, c \in CacheContents :
         /\ _is_repo_cached(c)
         /\ model_config' = k
         /\ cached' = Assign(cached, ModelInHand.type, TRUE)
    /\ LET e == _emit(ModelInHand.type, "completed", 100, "", "cached")
       IN  /\ Locked(e)
           /\ mstatus' = e.status
    /\ dpc' = "print_cached"
    /\ UNCHANGED <<_total_count, idx, tick, current_pct, results, dl_out, dl_worker,
                   dl_thread, dl_frame>>

\* download_model, the repository not in the cache: the locked section of
\* _emit(model_type, "downloading", 0).
DlPrepare ==
    /\ dpc = "call"
    /\ \E k \in Configs, c \in CacheContents :
         /\ ~_is_repo_cached(c)
         /\ model_config' = k
         /\ cached' = Assign(cached, ModelInHand.type, FALSE)
    /\ LET e == _emit(ModelInHand.type, "downloading", 0, "", "prepare")
       IN  /\ Locked(e)
           /\ mstatus' = e.status
    /\ dpc' = "print_prepare"
    /\ UNCHANGED <<_total_count, idx, tick, current_pct, results, dl_out, dl_worker,
                   dl_thread, dl_frame>>

\* The print of the preparing event, the callback context, t.start() and the
\* worker's first snapshot_download call.
DlSpawn ==
    /\ dpc = "print_prepare"
    /\ PrintLine(mstatus)
    /\ mstatus' = NoStatus
    /\ _model_type' = ModelInHand.type
    /\ _last_pct' = -1
    /\ result_box' = EmptyBox
    /\ done_event' = FALSE
    /\ started' = [started EXCEPT ![ModelInHand.type] = @ + 1]
    /\ wpc' = "transfer"
    /\ source' = [repo |-> "primary", pinned |-> model_config.revision]
    /\ callbacks' = 0
    /\ wstatus' = NoStatus
    /\ attempts' = <<>>
    /\ doneTick' = -1
    /\ cb_last' = -1
    /\ tick' = 0
    /\ dpc' = "wait"
    /\ UNCHANGED <<dl_module, _total_count, idx, model_config, current_pct, results,
                   cached, dl_frame>>

\* Mutant: the wait has no timeout, so it returns only when done_event is set.
DlWaitTimeout_Blocks ==
    /\ dpc = "wait"
    /\ done_event
    /\ ~done_event
    /\ UNCHANGED vars

\* done_event.wait(timeout=2.0) returning False: tick += 1, and past max_ticks the
\* locked section of _emit(model_type, "error", 0, timeout).
DlWaitTimeout ==
    /\ dpc = "wait"
    /\ ~done_event
    /\ tick' = tick + 1
    /\ IF tick + 1 > max_ticks
       THEN LET e == _emit(ModelInHand.type, "error", 0, "timeout", "timeout")
            IN  /\ Locked(e)
                /\ mstatus' = e.status
                /\ dpc' = "print_timeout"
       ELSE /\ dpc' = "read"
            /\ UNCHANGED <<dl_module, mstatus>>
    /\ UNCHANGED <<_total_count, idx, model_config, current_pct, results, cached, dl_out,
                   dl_worker, dl_thread, dl_frame>>

\* with _progress_lock: current_pct = _progress.get(model_type, 0)
DlRead ==
    /\ dpc = "read"
    /\ current_pct' = IF ModelInHand.type \in DOMAIN _progress
                      THEN _progress[ModelInHand.type] ELSE 0
    /\ dpc' = "beat"
    /\ UNCHANGED <<dl_module, _total_count, idx, model_config, tick, results, mstatus,
                   cached, dl_out, dl_worker, dl_thread, dl_frame>>

\* The heartbeat: the locked section of its _emit.
DlBeat ==
    /\ dpc = "beat"
    /\ LET e == IF current_pct = 0 /\ tick <= connect_ticks
                THEN _emit(ModelInHand.type, "downloading", 0, "", "connecting")
                ELSE _emit(ModelInHand.type, "downloading", current_pct, "", "heartbeat")
       IN  /\ Locked(e)
           /\ mstatus' = e.status
    /\ dpc' = "print_beat"
    /\ UNCHANGED <<_total_count, idx, model_config, tick, current_pct, results, cached,
                   dl_out, dl_worker, dl_thread, dl_frame>>

\* The print of the heartbeat, and back to the wait.
DlPrintBeat ==
    /\ dpc = "print_beat"
    /\ PrintLine(mstatus)
    /\ mstatus' = NoStatus
    /\ dpc' = "wait"
    /\ UNCHANGED <<dl_module, _total_count, idx, model_config, tick, current_pct, results,
                   cached, dl_worker, dl_thread, dl_frame>>

\* done_event.wait returning True: the locked section of the completed or the
\* error event, by result_box.
DlFinish ==
    /\ dpc = "wait"
    /\ done_event
    /\ LET e == IF "ok" \in DOMAIN result_box /\ result_box.ok
                THEN _emit(ModelInHand.type, "completed", 100, "", "finished")
                ELSE _emit(ModelInHand.type, "error", 0,
                           IF "error" \in DOMAIN result_box
                           THEN result_box.error ELSE "unknown error", "failed")
       IN  /\ Locked(e)
           /\ mstatus' = e.status
    /\ dpc' = "print_final"
    /\ UNCHANGED <<_total_count, idx, model_config, tick, current_pct, results, cached,
                   dl_out, dl_worker, dl_thread, dl_frame>>

\* Mutant: main() goes on to the next model after a failure.
Return_NoBreak(result) ==
    /\ results' = Assign(results, ModelInHand.type, result)
    /\ IF idx < Len(models)
       THEN idx' = idx + 1 /\ dpc' = "call"
       ELSE dpc' = "summary" /\ UNCHANGED idx

\* download_model returns to the loop of main(): results[type] = result, break on a
\* failure, the next model otherwise.
Return(result) ==
    /\ results' = Assign(results, ModelInHand.type, result)
    /\ IF result.success /\ idx < Len(models)
       THEN idx' = idx + 1 /\ dpc' = "call"
       ELSE dpc' = "summary" /\ UNCHANGED idx

\* The print of a terminal event and the return of download_model.
DlPrintReturn ==
    /\ dpc \in {"print_cached", "print_timeout", "print_final"}
    /\ PrintLine(mstatus)
    /\ mstatus' = NoStatus
    /\ Return(IF mstatus.stage = "completed"
              THEN [success |-> TRUE, model |-> ModelInHand.type]
              ELSE [success |-> FALSE, model |-> ModelInHand.type,
                    error |-> mstatus.error])
    /\ UNCHANGED <<dl_module, _total_count, model_config, tick, current_pct, cached,
                   dl_worker, dl_thread, dl_frame>>

\* failed = [mt for mt, r in results.items() if not r["success"]], in the order of
\* insertion, which is the order of models.
FailedModels(res) ==
    LET types == [i \in 1..Len(models) |-> models[i].type]
        IsFailed(t) == t \in DOMAIN res /\ ~res[t].success
    IN  SelectSeq(types, IsFailed)

\* Mutant: the summary names the models that were not attempted.
final_result_ListsSkipped(res) ==
    IF FailedModels(res) # <<>>
    THEN [success |-> FALSE, error |-> "failed",
          failed_models |->
              SelectSeq([i \in 1..Len(models) |-> models[i].type],
                        LAMBDA t : t \notin DOMAIN res),
          results |-> res]
    ELSE [success |-> TRUE, message |-> "done", results |-> res]

\* main(): final_result
final_result(res) ==
    IF FailedModels(res) # <<>>
    THEN [success |-> FALSE, error |-> "failed", failed_models |-> FailedModels(res),
          results |-> res]
    ELSE [success |-> TRUE, message |-> "done", results |-> res]

\* print(json.dumps(final_result)); sys.stdout.flush()
DlSummary ==
    /\ dpc = "summary"
    /\ out_last' = final_result(results)
    /\ out_summaries' = out_summaries + 1
    /\ out_after' = IF out_summaries > 0 THEN out_after + 1 ELSE out_after
    /\ dpc' = "exiting"
    /\ UNCHANGED <<dl_module, _total_count, idx, model_config, tick, current_pct, results,
                   mstatus, cached, dl_worker, dl_thread, dl_frame>>

\* main() returns and the interpreter exits; a daemon thread still running ends
\* with it.
DlExit ==
    /\ dpc = "exiting"
    /\ dpc' = "exited"
    /\ UNCHANGED <<dl_module, _total_count, idx, model_config, tick, current_pct, results,
                   mstatus, cached, dl_out, dl_worker, dl_thread, dl_frame>>

dl_main == <<dpc, idx, model_config, tick, current_pct, results, mstatus, cached>>
WorkerAlive == wpc \in {"transfer", "print"} /\ dpc # "exited"

\* Mutant: the callback emits every percentage it is given.
WCallback_NoDedup ==
    /\ WorkerAlive
    /\ wpc = "transfer"
    /\ callbacks < MaxCallbacks
    /\ callbacks' = callbacks + 1
    /\ \E pct \in Pcts :
         /\ _last_pct' = pct
         /\ LET e == _emit(_model_type, "downloading", pct, "", "progress")
            IN  /\ Locked(e)
                /\ wstatus' = e.status
         /\ cb_last' = pct
         /\ wpc' = "print"
    /\ UNCHANGED <<_total_count, _model_type, done_event, result_box, started, source,
                   attempts, doneTick, dl_main, dl_out, dl_frame>>

\* _ProgressTqdm._report_progress, called by tqdm on display() and update(): a
\* percentage equal to the last one is dropped, any other is recorded and goes
\* through the locked section of _emit.
WCallback ==
    /\ WorkerAlive
    /\ wpc = "transfer"
    /\ callbacks < MaxCallbacks
    /\ callbacks' = callbacks + 1
    /\ \E pct \in Pcts :
         IF pct # _last_pct
         THEN /\ _last_pct' = pct
              /\ LET e == _emit(_model_type, "downloading", pct, "", "progress")
                 IN  /\ Locked(e)
                     /\ wstatus' = e.status
              /\ cb_last' = pct
              /\ wpc' = "print"
         ELSE UNCHANGED <<_last_pct, dl_module, wstatus, wpc, cb_last>>
    /\ UNCHANGED <<_total_count, _model_type, done_event, result_box, started, source,
                   attempts, doneTick, dl_main, dl_out, dl_frame>>

\* The print of _emit on the worker thread.
WPrint ==
    /\ WorkerAlive
    /\ wpc = "print"
    /\ PrintLine(wstatus)
    /\ wstatus' = NoStatus
    /\ wpc' = "transfer"
    /\ UNCHANGED <<dl_module, _total_count, source, callbacks, attempts, doneTick,
                   cb_last, dl_thread, dl_main, dl_frame>>

\* str(e) of the snapshot_download that raised.
ErrorOf(src) ==
    IF src.repo = "primary"
    THEN IF src.pinned THEN "primary pinned failed" ELSE "primary unpinned failed"
    ELSE IF src.pinned THEN "fallback pinned failed" ELSE "fallback unpinned failed"

\* Mutant: the fallback repository is tried before the unpinned primary.
AfterFailure_FallbackFirst(k, src) ==
    IF src.repo = "primary" /\ src.pinned /\ k.fallback_name
    THEN [repo |-> "fallback", pinned |-> TRUE]
    ELSE IF src.pinned
    THEN [repo |-> "primary", pinned |-> FALSE]
    ELSE NoSource

\* _try_download and _worker: the snapshot_download made after the one of src
\* raised, NoSource when none is left.
AfterFailure(k, src) ==
    IF src.pinned
    THEN [repo |-> src.repo, pinned |-> FALSE]
    ELSE IF src.repo = "primary" /\ k.fallback_name
    THEN [repo |-> "fallback", pinned |-> k.revision]
    ELSE NoSource

\* snapshot_download returns: result_box is filled and, in the finally clause,
\* done_event set.
WAttemptOk ==
    /\ WorkerAlive
    /\ wpc = "transfer"
    /\ attempts' = Append(attempts, [source |-> source, ok |-> TRUE])
    /\ result_box' = [ok |-> TRUE, name |-> source.repo]
    /\ done_event' = TRUE
    /\ doneTick' = tick
    /\ wpc' = "exit"
    /\ UNCHANGED <<dl_module, _total_count, _last_pct, _model_type, started, source,
                   callbacks, wstatus, cb_last, dl_main, dl_out, dl_frame>>

\* snapshot_download raises: the next attempt, or with none left result_box is
\* filled with the error and done_event set.
WAttemptFail ==
    /\ WorkerAlive
    /\ wpc = "transfer"
    /\ attempts' = Append(attempts, [source |-> source, ok |-> FALSE])
    /\ LET nxt == AfterFailure(model_config, source)
       IN  IF nxt # NoSource
           THEN /\ source' = nxt
                /\ UNCHANGED <<result_box, done_event, doneTick, wpc>>
           ELSE /\ result_box' = [ok |-> FALSE, error |-> ErrorOf(source)]
                /\ done_event' = TRUE
                /\ doneTick' = tick
                /\ wpc' = "exit"
                /\ UNCHANGED source
    /\ UNCHANGED <<dl_module, _total_count, _last_pct, _model_type, started, callbacks,
                   wstatus, cb_last, dl_main, dl_out, dl_frame>>

NextDl ==
    \/ DlMain
    \/ DlCached
    \/ DlPrepare
    \/ DlSpawn
    \/ DlWaitTimeout
    \/ DlRead
    \/ DlBeat
    \/ DlPrintBeat
    \/ DlFinish
    \/ DlPrintReturn
    \/ DlSummary
    \/ DlExit
    \/ WCallback
    \/ WPrint
    \/ WAttemptOk
    \/ WAttemptFail

SpecDl == InitDl /\ [][NextDl]_vars

\* download_model as main() calls it: with its own two entries, which set no
\* revision and no fallback_name.
DlCachedByMain ==
    /\ DlCached
    /\ model_config' = NoConfig

DlPrepareByMain ==
    /\ DlPrepare
    /\ model_config' = NoConfig

\* The steps of the main thread.  None of them blocks: the only wait is
\* done_event.wait(timeout=2.0), which returns after two seconds at the latest, so
\* the main thread goes on as long as it has a step to take.  The worker has no
\* such guarantee: snapshot_download may block on the network for ever.
MainThread ==
    \/ DlMain
    \/ DlCachedByMain
    \/ DlPrepareByMain
    \/ DlSpawn
    \/ DlWaitTimeout
    \/ DlRead
    \/ DlBeat
    \/ DlPrintBeat
    \/ DlFinish
    \/ DlPrintReturn
    \/ DlSummary
    \/ DlExit

WorkerThread ==
    \/ WCallback
    \/ WPrint
    \/ WAttemptOk
    \/ WAttemptFail

NextMain ==
    \/ MainThread
    \/ WorkerThread

\* The downloader process as it is run, the main thread scheduled fairly.
SpecMain == InitDl /\ [][NextMain]_vars /\ WF_vars(MainThread)

\* ------------------------------------------------------ the HuggingFace cache
\* The directory models--<repo> of one repository as the hub's downloads, the user
\* and the three readiness checks see it.  One file per snapshot is kept: its
\* extension, its size in bytes and how many directories below the snapshot it is.
FileExts == {".json", ".safetensors", ".onnx"}
FileSizes == {999999, 1000000, 1020000, 1048576, 2097152}
Depths == {0, 2}

\* The server's check, the downloader's own and funasr_server.py's own, run on the
\* directory as it is.
Verdicts(c) ==
    [asked |-> TRUE, of |-> c, server |-> is_hf_repo_ready(c),
     downloader |-> _is_repo_cached(c), legacy |-> _hf_repo_ready(c)]

InitCache == InitDl

\* os.makedirs of the repository directory.
MakeRepoDir ==
    /\ ~repo.repo_dir
    /\ repo' = [repo EXCEPT !.repo_dir = TRUE]
    /\ UNCHANGED <<verdicts, server_vars, dl_vars>>

\* The hub writes refs/main.
WriteRefs ==
    /\ repo.repo_dir
    /\ ~repo.refs_file
    /\ repo' = [repo EXCEPT !.refs_file = TRUE]
    /\ UNCHANGED <<verdicts, server_vars, dl_vars>>

\* The hub makes snapshots/<commit>.
MakeSnapshot ==
    /\ repo.repo_dir
    /\ ~repo.snapshot_dir
    /\ repo' = [repo EXCEPT !.snapshot_dir = TRUE]
    /\ UNCHANGED <<verdicts, server_vars, dl_vars>>

\* A file is put in the snapshot, in place of the one there.
WriteFile ==
    /\ repo.snapshot_dir
    /\ \E x \in FileExts, sz \in FileSizes, dp \in Depths :
         repo' = [repo EXCEPT !.ext = x, !.size = sz, !.depth = dp]
    /\ UNCHANGED <<verdicts, server_vars, dl_vars>>

\* The cache is cleared.
RemoveRepo ==
    /\ repo.repo_dir
    /\ repo' = NoRepo
    /\ UNCHANGED <<verdicts, server_vars, dl_vars>>

\* is_hf_repo_ready, _is_repo_cached and _hf_repo_ready are called.
CheckRepo ==
    /\ verdicts' = Verdicts(repo)
    /\ UNCHANGED <<repo, server_vars, dl_vars>>

NextCache ==
    \/ MakeRepoDir
    \/ WriteRefs
    \/ MakeSnapshot
    \/ WriteFile
    \/ RemoveRepo
    \/ CheckRepo

SpecCache == InitCache /\ [][NextCache]_vars

\* ------------------------------------------------------------------ claims
Recognized == {"transcribe", "status", "stats", "cleanup", "exit"}
\* The step of run() that finishes the handling of the line in hand.
Handled == pc = "dispatch" /\ pc' # "dispatch"
Answers == IF line.kind = "empty" THEN 0 ELSE 1

\* C1: commands are handled one at a time.  Whenever run() is between commands
\* (about to test the flag, about to read, or stopped) every non-empty line read so
\* far has exactly one response after the startup line, so the response to a line is
\* written before the next line is read; while a line is in hand its response is the
\* only one outstanding; an empty line has none.
C1_OneResponsePerLine ==
    /\ pc = "start" => nout = 0 /\ nread = 0
    /\ pc \in {"check", "read", "stopped"} => nout = 1 + nread
    /\ pc = "dispatch" => nout = 1 + nread - Answers
C1_Witness ==
    /\ pc = "read"
    /\ line.kind = "nonobject"
    /\ nread = 2
    /\ nout = 3

\* C2: nothing is read or written before the startup line; once run() has started
\* its loop the first line written is the startup line, it is the only line not
\* answering a command, and it is the models_not_downloaded result when a
\* repository was missing (initialize not called) and the result of initialize()
\* otherwise.
InitializeResults ==
    {[success |-> FALSE, error |-> "load_failed", type |-> "init_error"]}
        \cup {[success |-> TRUE, message |-> "initialized", model_loaded |-> TRUE, engine |-> v] :
                v \in Variants}
C2_StartupLineFirst ==
    /\ pc = "start" => nout = 0 /\ nread = 0 /\ startup = NoResult /\ line = NoLine
    /\ pc # "start" =>
        /\ nout >= 1
        /\ anyMissing => startup = MODELS_NOT_DOWNLOADED(variant)
        /\ ~anyMissing => startup \in InitializeResults
        /\ line = NoLine =>
            /\ nout = 1
            /\ last = startup
            /\ startup.success <=> initialized
            /\ anyMissing => loadAttempts = 0
            /\ ~anyMissing => loadAttempts >= 1
C2_Witness ==
    /\ pc = "read"
    /\ line = NoLine
    /\ ~anyMissing
    /\ startup.success
    /\ nout = 1

\* C3: handling a malformed-JSON line writes one response with success false,
\* changes nothing of the server (initialized, model, device, counters, running
\* flag) and returns to the loop test; a status command read right after it is
\* answered with one status result.
C3_MalformedJson ==
    /\ [][(Handled /\ line.kind = "malformed") =>
            /\ nout' = nout + 1
            /\ ~last'.success
            /\ pc' = "check"
            /\ UNCHANGED <<initialized, model, device, transcription_count,
                           total_audio_duration, running>>]_vars
    /\ [][(Handled /\ afterMalformed /\ Tag(line) = "status") =>
            /\ nout' = nout + 1
            /\ IsResult(last')
            /\ pc' = "check"]_vars
C3_Witness ==
    /\ pc = "check"
    /\ afterMalformed
    /\ Tag(line) = "status"
    /\ "installed" \in DOMAIN last
    /\ nout = 1 + nread

\* C4: run() stops only on an exit command, on end of input or on a cleared
\* running flag; a JSON value that is no object, an unrecognized action and an
\* exception raised inside the dispatch each get one success:false response and
\* the loop goes on.
C4_BadRequestNeverKills ==
    /\ [][(pc # "stopped" /\ pc' = "stopped") =>
            \/ pc = "dispatch" /\ Tag(line) = "exit"
            \/ pc = "read" /\ line' = EofLine
            \/ pc = "check" /\ ~running]_vars
    /\ [][(Handled /\ (line.kind = "nonobject"
                        \/ (line.kind = "object" /\ line.action \notin Recognized))) =>
            /\ pc' = "check"
            /\ nout' = nout + 1
            /\ ~last'.success]_vars
    /\ [][(Handled /\ line.kind # "empty" /\ Tag(line) # "exit") =>
            /\ pc' = "check"
            /\ nout' = nout + 1
            /\ IsResult(last')
            /\ "traceback" \in DOMAIN last' => ~last'.success]_vars
C4_Witness ==
    /\ pc = "dispatch"
    /\ line.kind = "object"
    /\ nread = 2
    /\ "traceback" \in DOMAIN last
    /\ ~last.success

\* C5: the exit command writes one response with success true and stops run();
\* once stopped, nothing more is read or written.
C5_ExitStops ==
    /\ [][(Handled /\ Tag(line) = "exit") =>
            /\ nout' = nout + 1
            /\ last'.success
            /\ pc' = "stopped"]_vars
    /\ [][pc = "stopped" => UNCHANGED <<pc, line, nread, nout, last>>]_vars
C5_Witness ==
    /\ pc = "stopped"
    /\ Tag(line) = "exit"
    /\ last = [success |-> TRUE, message |-> "exiting"]
    /\ nread < MaxLines
    /\ nout = 1 + nread

\* C6: a signal changes the running flag and nothing else; the command in hand
\* when the flag is cleared is completed and answered as any other; and at the
\* next loop test run() stops without reading.
C6_SignalOnlyFlipsFlag ==
    /\ [][(running /\ ~running') =>
            UNCHANGED <<variant, self_vars, pc, line, afterMalformed, anyMissing, startup,
                        last, nread, nout, calls>>]_vars
    /\ [][(Handled /\ ~running) =>
            /\ nout' = nout + Answers
            /\ nread' = nread
            /\ Tag(line) # "exit" => pc' = "check"]_vars
    /\ [][(pc = "check" /\ ~running) =>
            /\ pc' = "stopped"
            /\ UNCHANGED <<line, nread, nout, last, self_vars>>]_vars
C6_Witness ==
    /\ pc = "stopped"
    /\ sigAt = "dispatch"
    /\ Tag(line) = "transcribe"
    /\ last.success
    /\ "raw_text" \in DOMAIN last
    /\ inferCalls = 1
    /\ nout = 1 + nread

\* C7: end of input stops run() without writing anything and without changing
\* the server.
C7_EofStops ==
    [][(pc = "read" /\ line' = EofLine) =>
            /\ pc' = "stopped"
            /\ UNCHANGED <<nout, last, nread, running, self_vars>>]_vars
C7_Witness ==
    /\ pc = "stopped"
    /\ line = EofLine
    /\ running
    /\ nread = 1
    /\ nout = 2

\* C8: initialize() called while Ready returns success and leaves the load
\* count, the device, the model handle and the Ready state as they were.
C8_InitializeIdempotent ==
    [][(calls' = calls + 1 /\ Tag(line') = "initialize" /\ initialized) =>
            /\ last'.success
            /\ UNCHANGED <<loadAttempts, device, model, initialized>>]_vars
C8_Witness ==
    /\ calls = 3
    /\ Tag(line) = "initialize"
    /\ last = [success |-> TRUE, message |-> "already_initialized"]
    /\ loadAttempts = 1
    /\ transcription_count = 0
    /\ inferCalls = 0

\* C9: when the first load of an operation fails on cuda, the device is
\* downgraded once and the load retried exactly once, on cpu; when that retry
\* succeeds the server is Ready with the device recorded as cpu and initialize()
\* returned success; and a device once cpu stays cpu.
Failed(entry) == entry[2] # "ok"
C9_DeviceFallback ==
    /\ [](pc = "api" /\ loadLog # <<>> /\ loadLog[1][1] = "cuda" /\ Failed(loadLog[1]) =>
            /\ Len(loadLog) = 2
            /\ loadLog[2][1] = "cpu"
            /\ device = "cpu"
            /\ ~Failed(loadLog[2]) =>
                /\ initialized
                /\ model # NoModel
                /\ Tag(line) = "initialize" => last.success)
    /\ [][device = "cpu" => device' = "cpu"]_vars
C9_Witness ==
    /\ Tag(line) = "initialize"
    /\ loadLog = << <<"cuda", "error">>, <<"cpu", "ok">> >>
    /\ loadAttempts = 2
    /\ initialized
    /\ device = "cpu"
    /\ last.success

\* C10: when the last load of an operation fails it was made on cpu, the result
\* is success:false with type init_error, the server is not Ready and has no
\* model handle; the load count changes only in a call of initialize() or
\* transcribe made while not Ready, by at most two.
C10_InitFailure ==
    /\ [](pc = "api" /\ loadLog # <<>> /\ Failed(loadLog[Len(loadLog)]) =>
            /\ loadLog[Len(loadLog)][1] = "cpu"
            /\ device = "cpu"
            /\ ~last.success
            /\ TypeOf(last) = "init_error"
            /\ ~initialized
            /\ model = NoModel)
    /\ [](~initialized => model = NoModel)
    /\ [][loadAttempts' # loadAttempts =>
            /\ ~initialized
            /\ Tag(line') \in {"initialize", "transcribe"}
            /\ loadAttempts' <= loadAttempts + 2]_vars
C10_Witness ==
    /\ initialized
    /\ loadLog = << <<"cpu", "ok">> >>
    /\ loadAttempts = 2
    /\ model = 2
    /\ Tag(line) = "initialize"
    /\ last.success

\* C11: when the load made by initialize() ends at a failed import of the model
\* library, the result of initialize() has type import_error (and init_error is kept
\* for the other load failures).
C11_ImportErrorType ==
    (pc = "api" /\ Tag(line) = "initialize" /\ loadLog # <<>>
        /\ loadLog[Len(loadLog)][2] = "import_error")
    => (~last.success /\ TypeOf(last) = "import_error")

\* The repositories a result lists.  The results the code builds carry none: the
\* models_not_downloaded result has the keys success, error (a fixed message), type
\* and engine, and the missing repositories go to the log only.
Listed(r) == IF "missing" \in DOMAIN r THEN r.missing ELSE {}

\* C12 (as claimed): after a startup that found a repository not ready, initialize()
\* was not called, no model is loaded, the one startup line has success false and
\* type models_not_downloaded and lists the missing repositories (at least one, all
\* of them repositories of the engine); run() is then in its loop, and a transcribe
\* command handled while not Ready makes a load attempt and is answered with a
\* result.
C12_StartupListsMissing ==
    /\ [](pc # "start" /\ anyMissing =>
            /\ ~startup.success
            /\ TypeOf(startup) = "models_not_downloaded"
            /\ Listed(startup) # {}
            /\ Listed(startup) \subseteq Repos(variant))
    /\ [](pc # "start" /\ anyMissing /\ line = NoLine =>
            /\ loadAttempts = 0
            /\ model = NoModel
            /\ ~initialized
            /\ nout = 1)
    /\ [][(Handled /\ anyMissing /\ Tag(line) = "transcribe" /\ ~initialized) =>
            /\ loadAttempts' > loadAttempts
            /\ IsResult(last')
            /\ nout' = nout + 1
            /\ pc' = "check"]_vars

\* C12 (amended): after a startup that found a repository not ready, initialize()
\* was not called, no model is loaded, and the one startup line is the fixed
\* models_not_downloaded result (success false, the engine, no repository listed);
\* run() goes on to its loop test with the running flag as it was; and each
\* transcribe command handled while not Ready makes a load attempt and is
\* answered with one result, the init_error result when the attempt fails.
C12_StartupWithoutModels ==
    /\ [](pc # "start" /\ anyMissing =>
            /\ startup = MODELS_NOT_DOWNLOADED(variant)
            /\ DOMAIN startup = {"success", "error", "type", "engine"}
            /\ ~startup.success
            /\ Listed(startup) = {})
    /\ [](pc # "start" /\ anyMissing /\ line = NoLine =>
            /\ loadAttempts = 0
            /\ model = NoModel
            /\ ~initialized
            /\ nout = 1
            /\ last = startup)
    /\ [][(pc = "start" /\ pc' # "start") => (pc' = "check" /\ running' = running)]_vars
    /\ [][(pc = "check" /\ running /\ pc' # pc) => pc' = "read"]_vars
    /\ [][(Handled /\ anyMissing /\ Tag(line) = "transcribe" /\ ~initialized) =>
            /\ loadAttempts' > loadAttempts
            /\ IsResult(last')
            /\ ~initialized' => (~last'.success /\ TypeOf(last') = "init_error")
            /\ nout' = nout + 1
            /\ pc' = "check"]_vars
C12_Witness ==
    /\ anyMissing
    /\ pc = "read"
    /\ Tag(line) = "transcribe"
    /\ nread = 2
    /\ nout = 3
    /\ loadAttempts >= 3
    /\ ~initialized
    /\ TypeOf(last) = "init_error"

\* C13: a transcribe call on a server that is not Ready runs the load first (a Ready
\* one runs none); when that initialize() fails, the call returns initialize()'s
\* failure result as it stands, the inference call is not made, and the request
\* count, the cumulative duration and the cleanup count are unchanged.
C13_InitFailurePropagates ==
    [][(calls' = calls + 1 /\ Tag(line') = "transcribe") =>
            /\ initialized => (loadAttempts' = loadAttempts /\ loadLog' = <<>>)
            /\ ~initialized => loadAttempts' > loadAttempts
            /\ ~initialized' =>
                /\ ~initialized
                /\ last' = [success |-> FALSE, error |-> "load_failed", type |-> "init_error"]
                /\ last' \in {initialize(Self, envs).result : envs \in LoadScripts(Self)}
                /\ inferCalls' = inferCalls
                /\ inferLog' = "none"
                /\ UNCHANGED <<transcription_count, total_audio_duration, cleanups>>]_vars
C13_Witness ==
    /\ pc = "api"
    /\ Tag(line) = "transcribe"
    /\ line.audio = Audio(TRUE, TRUE, 10, 5)
    /\ ~initialized
    /\ loadLog = << <<"cuda", "error">>, <<"cpu", "error">> >>
    /\ TypeOf(last) = "init_error"
    /\ inferCalls = 0
    /\ total_audio_duration = 0

\* C14: in both servers, a transcribe call that gets past the lazy initialize with a
\* path that does not exist returns success false with type transcription_error,
\* makes no inference call and leaves the request count and the cumulative
\* duration unchanged.
C14_MissingFileFailsFast ==
    [][(calls' = calls + 1 /\ Tag(line') = "transcribe" /\ initialized'
            /\ ~line'.audio.exists) =>
            /\ ~last'.success
            /\ TypeOf(last') = "transcription_error"
            /\ inferCalls' = inferCalls
            /\ UNCHANGED <<transcription_count, total_audio_duration>>]_vars

\* C15: in both servers, a transcribe call that reaches the duration probe returns
\* success true with text "" and makes no inference call when the probed duration d
\* has 0 < d < 0.5 s, and makes the inference call when d = 0 (a failed probe
\* included) or d >= 0.5 s.
C15_ShortAudioSkipsInference ==
    [][(calls' = calls + 1 /\ Tag(line') = "transcribe" /\ initialized'
            /\ line'.audio.exists) =>
            LET d == _get_audio_duration(Self, line'.audio).duration
            IN  /\ (0 < d /\ d < SHORT_AUDIO_LIMIT) =>
                    (last'.success /\ last'.text = "" /\ inferCalls' = inferCalls)
                /\ ~(0 < d /\ d < SHORT_AUDIO_LIMIT) => inferCalls' = inferCalls + 1]_vars

\* C16: when the inference call raises the exception of an empty or out-of-bounds
\* tensor (index_error: the voice-activity model found no speech) transcribe returns
\* success true with empty text and no error type; when it raises anything else
\* (runtime_error) transcribe returns success false with type transcription_error.
C16_EmptySpeechIsSuccess ==
    (pc = "api" /\ Tag(line) = "transcribe" /\ Raises(inferLog)) =>
        /\ inferLog = "index_error" =>
            (last.success /\ last.text = "" /\ TypeOf(last) = "none")
        /\ inferLog # "index_error" =>
            (~last.success /\ TypeOf(last) = "transcription_error")

\* The cleanup policy of each server, on the request count n after the increment and
\* the request's duration d.
CleanupDue(v, n, d) ==
    IF v = "whisper" THEN n % 5 = 0 \/ d > 1200 ELSE n % 10 = 0

\* C17: every transcribe call that returns success true, the short-audio
\* short-circuit and an empty text included, raises the request count by exactly
\* one, adds the duration it reports to the cumulative total exactly once, and
\* evaluates the cleanup policy (one cleanup when it is due, none otherwise).
C17_SuccessCountsOnce ==
    [][(calls' = calls + 1 /\ Tag(line') = "transcribe" /\ last'.success) =>
            /\ transcription_count' = transcription_count + 1
            /\ total_audio_duration' = total_audio_duration + last'.duration
            /\ cleanups' = cleanups
                + (IF CleanupDue(variant, transcription_count', last'.duration) THEN 1 ELSE 0)]_vars

\* C18: the request count and the cumulative duration never decrease, and a step
\* of run() changes either of them only when it handles a transcribe command whose
\* result is success true: a transcribe answered success false, and the status,
\* stats, cleanup, malformed and unknown commands, leave both as they were.
C18_StatsChangeOnlyOnSuccess ==
    [][(transcription_count' # transcription_count
            \/ total_audio_duration' # total_audio_duration) =>
            /\ Handled
            /\ Tag(line) = "transcribe"
            /\ last'.success
            /\ transcription_count' >= transcription_count
            /\ total_audio_duration' >= total_audio_duration]_vars

Abs(x) == IF x >= 0 THEN x ELSE 0 - x

\* C20 (as claimed): a statistics call made first on a fresh server reports
\* transcription_count 0 and average_duration 0; every statistics call returns
\* the record, and its average_duration is the cumulative duration divided by
\* max(1, request count), exactly.
C20_AverageIsExactQuotient ==
    (pc = "api" /\ Tag(line) = "stats") =>
        /\ {"transcription_count", "average_duration"} \subseteq DOMAIN last
        /\ last.transcription_count = transcription_count
        /\ calls = 1 => (last.transcription_count = 0 /\ last.average_duration = 0)
        /\ last.average_duration * Max(1, transcription_count) = 10 * total_audio_duration

\* C20 (amended): a statistics call made first on a fresh server reports
\* transcription_count 0 and average_duration 0; every statistics call returns
\* the record with the request count and the cumulative duration as they are, and
\* its average_duration is the cumulative duration divided by max(1, request
\* count) rounded to two decimal places: the multiple of 0.01 s nearest to the
\* quotient, and the quotient itself when that is a multiple of 0.01 s.
C20_AverageIsRoundedQuotient ==
    (pc = "api" /\ Tag(line) = "stats") =>
        LET n == Max(1, transcription_count)
            hundredths == 10 * total_audio_duration
        IN  /\ {"transcription_count", "average_duration"} \subseteq DOMAIN last
            /\ last.transcription_count = transcription_count
            /\ last.total_audio_duration = total_audio_duration
            /\ calls = 1 => (last.transcription_count = 0 /\ last.average_duration = 0)
            /\ 2 * Abs(last.average_duration * n - hundredths) <= n
            /\ hundredths % n = 0 => last.average_duration * n = hundredths
C20_Witness ==
    /\ pc = "api"
    /\ Tag(line) = "stats"
    /\ transcription_count = 3
    /\ total_audio_duration = 1211
    /\ last.average_duration = 4037

\* C21: every result of transcribe with success true has the keys text, raw_text,
\* confidence, duration, language and model_type, on every successful path, the
\* short-audio one included.
C21_SuccessResultShape ==
    (pc = "api" /\ Tag(line) = "transcribe" /\ last.success) =>
        {"text", "raw_text", "confidence", "duration", "language", "model_type"}
            \subseteq DOMAIN last

\* ---------------------------------------------------------- downloader claims
\* The locked section of an _emit has just run on the main thread, on the worker.
MainEmits == mstatus' # mstatus /\ mstatus' # NoStatus
WorkerEmits == wstatus' # wstatus /\ wstatus' # NoStatus
\* Calls of _emit made for model type t with a terminal stage.
Terminals(t) == emitted[t]["completed"] + emitted[t]["error"]

\* C22: the overall_progress of every event is the mean, over the total model
\* count, of the percentages the progress map holds when the locked section that
\* applied the event's update ends (overall_progress is in tenths of a percent, so
\* overall_progress * total = 10 * sum); a model not started counts as 0.
C22_OverallIsMean ==
    [][ /\ MainEmits => mstatus'.overall_progress * _total_count = 10 * SumValues(_progress')
        /\ WorkerEmits => wstatus'.overall_progress * _total_count = 10 * SumValues(_progress')
        /\ (MainEmits \/ WorkerEmits) =>
             DOMAIN _progress' = ModelTypes /\ _total_count = Len(models)
      ]_vars
\* One model cached (100), the other mid-transfer at 40: the event reports 70.0.
C22_Witness ==
    /\ "asr" \in DOMAIN cached
    /\ cached["asr"]
    /\ wstatus # NoStatus
    /\ wstatus.model = "vad"
    /\ wstatus.progress = 40
    /\ _progress = [t \in ModelTypes |-> IF t = "asr" THEN 100 ELSE 40]
    /\ wstatus.overall_progress = 700

\* C23: the completed count is the number of models that have reached a terminal
\* stage: each model has at most one completed or error event, the count is the
\* number of models that have one, it never exceeds the total, and it moves only in
\* a step that emits a terminal event, by one.
C23_CompletedCountsTerminals ==
    /\ [](/\ \A t \in ModelTypes : Terminals(t) <= 1
          /\ _completed_count = Cardinality({t \in ModelTypes : Terminals(t) = 1})
          /\ dpc # "main" => _completed_count <= _total_count)
    /\ [][_completed_count' # _completed_count =>
            /\ _completed_count' = _completed_count + 1
            /\ \E t \in ModelTypes : Terminals(t)' = Terminals(t) + 1]_vars
\* The first model timed out and its worker, still running, has emitted since.
C23_Witness ==
    /\ _completed_count = 1
    /\ emitted["asr"]["error"] = 1
    /\ dpc = "summary"
    /\ wstatus # NoStatus
    /\ _progress["asr"] = 40

\* C24: a model the cache check found ready has exactly one event, a completed
\* event at 100, no downloading event, no worker thread and no transfer, and
\* download_model returns success for it.
C24_CachedModelSkipsTransfer ==
    \A t \in DOMAIN cached :
        cached[t] =>
            /\ emitted[t] = [s \in Stages |-> IF s = "completed" THEN 1 ELSE 0]
            /\ started[t] = 0
            /\ _progress[t] = 100
            /\ IF dpc = "print_cached" /\ ModelInHand.type = t
               THEN /\ mstatus.stage = "completed"
                    /\ mstatus.model = t
                    /\ mstatus.progress = 100
                    /\ wpc \in {"none", "exit"}
               ELSE /\ t \in DOMAIN results
                    /\ results[t] = [success |-> TRUE, model |-> t]
\* The first model was transferred, the second found in the cache.
C24_Witness ==
    /\ dpc = "summary"
    /\ started["asr"] = 1
    /\ "vad" \in DOMAIN cached
    /\ cached["vad"]
    /\ results["vad"].success

\* The attempts the claim lists for a configuration, and their order.
Applicable(k) ==
    {[repo |-> "primary", pinned |-> k.revision]}
        \cup (IF k.revision THEN {[repo |-> "primary", pinned |-> FALSE]} ELSE {})
        \cup (IF k.fallback_name
              THEN {[repo |-> "fallback", pinned |-> k.revision],
                    [repo |-> "fallback", pinned |-> FALSE]}
              ELSE {})
Rank(src) ==
    IF src.repo = "primary" THEN (IF src.pinned THEN 1 ELSE 2)
    ELSE (IF src.pinned THEN 3 ELSE 4)
\* The worker whose log attempts is belongs to the model in hand.
WorkerOfModelInHand == idx >= 1 /\ started[ModelInHand.type] = 1

\* C25: the attempts of a worker are made in the order primary with its pin,
\* primary without the pin (only when a pin is set), fallback repository (only when
\* one is defined), none skipped; a successful attempt is the last one; failure is
\* reported only when every applicable attempt was made and failed, with the error
\* of the last attempt.
C25_SourceOrder ==
    WorkerOfModelInHand =>
        /\ \A i \in 1..Len(attempts) :
             /\ attempts[i].source \in Applicable(model_config)
             /\ \A s \in Applicable(model_config) :
                  Rank(s) < Rank(attempts[i].source) =>
                      \E j \in 1..(i - 1) : attempts[j].source = s /\ ~attempts[j].ok
             /\ \A j \in 1..(i - 1) : Rank(attempts[j].source) < Rank(attempts[i].source)
             /\ attempts[i].ok =>
                  /\ i = Len(attempts)
                  /\ wpc = "exit"
                  /\ result_box = [ok |-> TRUE, name |-> attempts[i].source.repo]
        /\ wpc = "exit" => "ok" \in DOMAIN result_box
        /\ ("ok" \in DOMAIN result_box /\ ~result_box.ok) =>
             /\ {attempts[i].source : i \in 1..Len(attempts)} = Applicable(model_config)
             /\ \A i \in 1..Len(attempts) : ~attempts[i].ok
             /\ result_box.error = ErrorOf(attempts[Len(attempts)].source)
        /\ (dpc = "print_final" /\ mstatus.stage = "error") =>
             mstatus.error = ErrorOf(attempts[Len(attempts)].source)
\* Pin and fallback both set and all four attempts failed.
C25_Witness ==
    /\ WorkerOfModelInHand
    /\ Len(attempts) = 4
    /\ dpc = "summary"
    /\ results[ModelInHand.type].error = "fallback unpinned failed"
\* The unpinned primary succeeded after the pinned one failed.
C25_WitnessRetry ==
    /\ WorkerOfModelInHand
    /\ Len(attempts) = 2
    /\ attempts[2] = [source |-> [repo |-> "primary", pinned |-> FALSE], ok |-> TRUE]
    /\ dpc = "summary"
    /\ results[ModelInHand.type].success

\* The model in hand once download_model has returned for it.
Returned(t) == t \in DOMAIN results
\* C26: a transfer whose worker has not set done_event by the time max_ticks waits
\* have expired is aborted (an error event for the model and a failure result),
\* and a transfer whose worker set it before that is not reported as timed out.
C26_AbortAtCeiling ==
    (WorkerOfModelInHand /\ Returned(ModelInHand.type)) =>
        LET r == results[ModelInHand.type]
        IN  /\ (doneTick = -1 \/ doneTick >= max_ticks) =>
                  ~r.success /\ emitted[ModelInHand.type]["error"] = 1
            /\ (doneTick # -1 /\ doneTick < max_ticks) =>
                  (r.success \/ r.error # "timeout")

\* Position in models of model type t.
IndexOf(t) == CHOOSE i \in 1..Len(models) : models[i].type = t
\* download_model has been entered for model type t.
Attempted(t) == t \in DOMAIN cached
\* C27: models are processed one after the other in list order, and after a
\* failure no later model is attempted: a model is entered only when every model
\* before it has returned success, and a model after a failed one has no event, no
\* worker and no cache check.
C27_AbortOnFirstFailure ==
    \A t, u \in ModelTypes :
        IndexOf(t) < IndexOf(u) =>
            /\ (Attempted(u) \/ emitted[u] # NoLog[u] \/ started[u] > 0) =>
                  Returned(t) /\ results[t].success
            /\ (Returned(t) /\ ~results[t].success) =>
                  /\ ~Attempted(u)
                  /\ emitted[u] = NoLog[u]
                  /\ started[u] = 0
                  /\ ~Returned(u)
\* The first model failed, its worker exhausted, and the run has ended.
C27_Witness ==
    /\ dpc = "exited"
    /\ Returned("asr")
    /\ ~results["asr"].success
    /\ results["asr"].error = "primary unpinned failed"
    /\ emitted["vad"] = NoLog["vad"]

\* The final summary is the line last printed.
SummaryInHand == out_summaries = 1 /\ out_after = 0
\* The elements of a sequence.
Range(s) == {s[i] : i \in 1..Len(s)}

\* C28: the final summary printed after an abort reports overall failure and lists
\* every model that was not attempted.
C28_SummaryListsSkipped ==
    (SummaryInHand /\ \E t \in DOMAIN results : ~results[t].success) =>
        /\ ~out_last.success
        /\ \A u \in ModelTypes : ~Attempted(u) => u \in Range(out_last.failed_models)
\* C28 as the code has it: the final summary printed after an abort reports overall
\* failure, lists in failed_models the model that failed and in results the models
\* that were attempted; a model that was not attempted is in neither.
C28_SummaryListsFailed ==
    (SummaryInHand /\ \E t \in DOMAIN results : ~results[t].success) =>
        /\ ~out_last.success
        /\ Range(out_last.failed_models) = {t \in ModelTypes : Returned(t) /\ ~results[t].success}
        /\ Len(out_last.failed_models) = 1
        /\ out_last.results = results
        /\ DOMAIN out_last.results = {t \in ModelTypes : Attempted(t)}
        /\ \A u \in ModelTypes :
             ~Attempted(u) =>
                 u \notin Range(out_last.failed_models) /\ u \notin DOMAIN out_last.results
\* The first model failed, the second was never attempted.
C28_Witness ==
    /\ SummaryInHand
    /\ ~out_last.success
    /\ out_last.failed_models = <<"asr">>
    /\ ~Attempted("vad")

\* C29: exactly one final summary is printed, no line is printed after it, and its
\* success field is true exactly when every model was attempted and succeeded.
C29_SummaryIsLastLine ==
    /\ out_summaries <= 1
    /\ dpc \in {"exiting", "exited"} => out_summaries = 1
    /\ out_after = 0
    /\ SummaryInHand =>
          (out_last.success <=> \A t \in ModelTypes : Returned(t) /\ results[t].success)

\* ------------------------------------------------------------ cache claims
\* The rule of the claim, 1 MB being 1,000,000 bytes: the directory exists and a
\* snapshot holds, at any depth, a weight file of at least that size.
ReadyByRule(c) ==
    /\ c.repo_dir
    /\ c.snapshot_dir
    /\ c.ext \in {".pt", ".bin", ".safetensors", ".onnx"}
    /\ c.size >= 1000000

\* C30: the cache readiness check, in the server and in the downloader, answers
\* true exactly when the rule holds of the directory it read; a directory with
\* only refs or only an empty snapshot is not ready, and one with a 2 MB
\* .safetensors file in a snapshot is.
C30_ReadyIffWeightFile ==
    verdicts.asked =>
        /\ verdicts.server = ReadyByRule(verdicts.of)
        /\ verdicts.downloader = ReadyByRule(verdicts.of)
        /\ verdicts.of.ext = "" => ~verdicts.server /\ ~verdicts.downloader
        /\ (verdicts.of.ext = ".safetensors" /\ verdicts.of.size = 2097152) =>
              verdicts.server /\ verdicts.downloader

\* C31: once a model has had its completed or its error event its percentage in
\* the progress map stays 100 or 0, whatever is emitted afterwards.
C31_TerminalPercentagePinned ==
    \A t \in ModelTypes :
        /\ emitted[t]["completed"] = 1 => _progress[t] = 100
        /\ emitted[t]["error"] = 1 => _progress[t] = 0

\* C32: every event the progress callback emits carries a percentage different
\* from the one the callback emitted just before in the same transfer; the record
\* of the last percentage is reset when download_model starts a transfer, so the
\* first callback of a transfer always emits.
C32_CallbackDeduplicated ==
    [][ /\ WorkerEmits => wstatus'.stage = "downloading" /\ wstatus'.progress # cb_last
        /\ (dpc = "print_prepare" /\ dpc' = "wait") => _last_pct' = -1
        /\ (callbacks = 0 /\ callbacks' = 1) => WorkerEmits
      ]_vars
\* Two callbacks with the same percentage in the second transfer of the run: the
\* first emitted, the second dropped.
C32_Witness ==
    /\ started["asr"] = 1
    /\ started["vad"] = 1
    /\ callbacks = 2
    /\ cb_last = 40
    /\ tick = 0
    /\ wpc = "transfer"
    /\ emitted["vad"]["downloading"] = 2

\* C33: at startup no server uses the looser rule: for every server, a repository
\* whose directory fails the rule of C30 (only a refs file, or snapshots without a
\* weight file of at least 1 MB) is found not ready, hence listed missing.
C33_NoLegacyRuleAtStartup ==
    verdicts.asked =>
        \A v \in Variants :
            ~ReadyByRule(verdicts.of) =>
                /\ ~RepoReady(v, verdicts.of)
                /\ v = "funasr" => ~verdicts.legacy

\* C34: once initialized is true no step of run() makes it false or changes the
\* model handle, whatever the command (a failing transcribe, status, stats,
\* cleanup, malformed input), and between commands initialized is true only with
\* the model handle set.
C34_ReadyStaysReady ==
    /\ [][initialized => initialized' /\ model' = model]_vars
    /\ [](pc \in {"check", "read", "stopped"} => (initialized => model # NoModel))
\* Ready, and the second command since, a transcribe, failed.
C34_Witness ==
    /\ pc = "read"
    /\ initialized
    /\ model # NoModel
    /\ startup.success
    /\ nread = 2
    /\ Tag(line) = "transcribe"
    /\ ~last.success

\* C35: once a signal has cleared the running flag run() takes at most one more
\* command: with the flag cleared it never comes to the read, so it reads a line
\* only when the signal found it at the read, and then one line; its test of the
\* flag stops it.
C35_AtMostOneCommandAfterSignal ==
    /\ [][~running =>
            /\ pc' = "read" => pc = "read"
            /\ (pc = "check" /\ pc' # pc) => pc' = "stopped"
            /\ (pc = "dispatch" /\ pc' # pc) => pc' \in {"check", "stopped"}
            /\ nread' # nread => sigAt = "read" /\ pc = "read" /\ nread' = nread + 1]_vars
    /\ []((~running /\ pc = "read") => sigAt = "read")
    /\ []((~running /\ pc = "dispatch") => sigAt \in {"read", "dispatch"})
\* The signal came while run() waited for input; the one line read after it was
\* answered and the loop then stopped.
C35_Witness ==
    /\ ~running
    /\ sigAt = "read"
    /\ pc = "stopped"
    /\ nread = 1
    /\ Tag(line) = "status"
    /\ nout = 2

\* C36: from the downloading-at-0 event of a model to its terminal event no step
\* lowers the percentage the progress map holds for it.
C36_PercentageNeverDecreases ==
    [][\A t \in ModelTypes :
          (emitted[t]["downloading"] >= 1 /\ Terminals(t)' = 0) =>
              _progress'[t] >= _progress[t]]_vars

\* C37: on every cache content the downloader's check and the server's check give
\* the same answer, so what the downloader skips the server finds ready and what
\* the server finds ready the downloader skips.
C37_ChecksAgree ==
    verdicts.asked =>
        /\ verdicts.downloader = verdicts.server
        /\ _is_repo_cached(verdicts.of) = is_hf_repo_ready(verdicts.of)

\* C38: the downloader ends with a final summary: the polling loop never counts
\* past max_ticks + 1 expired waits, a worker that has exited has set done_event,
\* and main() eventually prints the summary, whether the workers succeed, fail or
\* never finish.
C38_TerminatesWithSummary ==
    /\ [](tick <= max_ticks + 1)
    /\ [](wpc = "exit" => done_event)
    /\ <>(out_summaries = 1)
\* The worker never finished, the polling loop gave up, and the summary is out.
C38_Witness ==
    /\ out_summaries = 1
    /\ wpc = "transfer"
    /\ doneTick = -1
    /\ tick = max_ticks + 1
    /\ results["asr"].error = "timeout"

====
